---------------------------- MODULE Spec2Model ----------------------------
(***************************************************************************)
(* Model of topos-ai/geoutil: the WKB codec (encoding/wkb), the GeoJSON    *)
(* Feature codec (encoding/geojson) and the coordinate helpers of package  *)
(* geoutil.                                                                *)
(*                                                                         *)
(* Geometry.  A point is a pair of whole degrees [lat, lng]; s2.Point and  *)
(* s2.LatLng are the same pair, so floating-point rounding of the          *)
(* conversion between them is outside the model.  The s2 primitives the    *)
(* code calls (Loop.Normalize, Invert, ContainsPoint, OrientedVertex,      *)
(* IsHole, PolygonFromLoops) are modelled for loops far smaller than a     *)
(* hemisphere, where the sphere is locally a plane with lng as x and lat   *)
(* as y: a loop contains the region on its left, so a counter-clockwise    *)
(* loop contains its interior and a clockwise loop everything else.        *)
(*                                                                         *)
(* Go indexes from 0, TLA+ sequences from 1: At(s, i) is s[i] of the code. *)
(*                                                                         *)
(* Bind(x, F) is F(x) with x evaluated once, the way a Go statement        *)
(* "r, err := f(...)" evaluates f once before the statements that use r.   *)
(***************************************************************************)
EXTENDS Integers, Sequences, FiniteSets, TLC

Bind(x, F(_)) == CHOOSE out \in {F(r) : r \in {x}} : TRUE

At(s, i) == s[i + 1]

Pt(lat, lng) == [lat |-> lat, lng |-> lng]

\* Reverse of a sequence (the loop of Loop.Invert that swaps the vertices).
Reverse(s) == [i \in 1..Len(s) |-> s[Len(s) + 1 - i]]

---------------------------------------------------------------------------
(* s2.Loop as the code uses it: vertices without the closing point, and    *)
(* the nesting depth that PolygonFromLoops assigns.                        *)

\* s2.LoopFromPoints(points): geoutil.go:165, decode.go:88
LoopFromPoints(points) == [vertices |-> points, depth |-> 0]

\* loop.NumVertices(): geoutil.go:66, decode.go:366
NumVertices(loop) == Len(loop.vertices)

\* loop.IsHole(): geoutil.go:99, decode.go:528 (s2: depth&1 != 0)
IsHole(loop) == loop.depth % 2 = 1

\* loop.Vertex(i): (*loops)[shell].Vertex(0) geoutil.go:170,
\* polygonLoops[0].Vertex(1) decode.go:155 (s2 wraps the index)
Vertex(loop, i) == At(loop.vertices, i % NumVertices(loop))

\* loop.OrientedVertex(i): geoutil.go:73, decode.go:374.  s2: the index wraps
\* once, and a hole is traversed backwards.
OrientedVertex(loop, i) ==
    LET nv == NumVertices(loop)
        j0 == IF i - nv < 0 THEN i ELSE i - nv
        j  == IF IsHole(loop) THEN nv - 1 - j0 ELSE j0
    IN  Vertex(loop, j)

\* Twice the signed area of the vertex ring (shoelace); > 0 counter-clockwise.
RECURSIVE Area2From(_, _)
Area2From(vs, i) ==
    IF i > Len(vs) THEN 0
    ELSE LET a == vs[i]
             b == vs[(i % Len(vs)) + 1]
         IN  (a.lng * b.lat - b.lng * a.lat) + Area2From(vs, i + 1)

Area2(vs) == Area2From(vs, 1)

\* Does the ray from p towards +lng cross edge a-b (half-open in lat)?
EdgeCrossed(a, b, p) ==
    /\ (a.lat > p.lat) # (b.lat > p.lat)
    /\ IF b.lat > a.lat
       THEN (p.lng - a.lng) * (b.lat - a.lat) < (p.lat - a.lat) * (b.lng - a.lng)
       ELSE (p.lng - a.lng) * (b.lat - a.lat) > (p.lat - a.lat) * (b.lng - a.lng)

RECURSIVE InsideFrom(_, _, _)
InsideFrom(vs, p, i) ==
    IF i > Len(vs) THEN FALSE
    ELSE EdgeCrossed(vs[i], vs[(i % Len(vs)) + 1], p) # InsideFrom(vs, p, i + 1)

\* p lies in the bounded region enclosed by the ring.
Inside(vs, p) == InsideFrom(vs, p, 1)

\* s2: a loop is normalized when its area is at most half the sphere.
IsNormalized(loop) == NumVertices(loop) < 3 \/ Area2(loop.vertices) >= 0

\* loop.ContainsPoint(p): geoutil.go:170, decode.go:155
ContainsPoint(loop, p) ==
    IF NumVertices(loop) < 3 THEN FALSE
    ELSE IF IsNormalized(loop) THEN Inside(loop.vertices, p)
         ELSE ~Inside(loop.vertices, p)

\* loop.Invert(): geoutil.go:171, decode.go:156
Invert(loop) == [loop EXCEPT !.vertices = Reverse(loop.vertices)]

\* loop.Normalize(): geoutil.go:169, decode.go:154
Normalize(loop) == IF IsNormalized(loop) THEN loop ELSE Invert(loop)

---------------------------------------------------------------------------
(* s2.PolygonFromLoops: geoutil.go:206, geoutil.go:242, decode.go:184,      *)
(* decode.go:259.  s2 inserts the loops one by one into a map from parent  *)
(* to children (nil, here 0, is the root), then lists them depth-first and *)
(* assigns each its depth.                                                 *)

MinOf(S) == CHOOSE x \in S : \A y \in S : x <= y
MaxOf(S) == CHOOSE x \in S : \A y \in S : x >= y

Lats(loop) == {loop.vertices[i].lat : i \in 1..Len(loop.vertices)}
Lngs(loop) == {loop.vertices[i].lng : i \in 1..Len(loop.vertices)}

\* s2 Loop.bound of a: the bounding rectangle, or everything for a loop that
\* contains the poles (a clockwise one).  a.subregionBound.Contains(b.bound).
BoundContains(a, b) ==
    \/ ~IsNormalized(a)
    \/ /\ IsNormalized(b)
       /\ NumVertices(a) > 0 /\ NumVertices(b) > 0
       /\ MinOf(Lats(a)) <= MinOf(Lats(b)) /\ MaxOf(Lats(b)) <= MaxOf(Lats(a))
       /\ MinOf(Lngs(a)) <= MinOf(Lngs(b)) /\ MaxOf(Lngs(b)) <= MaxOf(Lngs(a))

\* s2 Loop.ContainsNested
ContainsNested(a, b) ==
    /\ BoundContains(a, b)
    /\ NumVertices(a) >= 3 /\ NumVertices(b) >= 2
    /\ ContainsPoint(a, Vertex(b, 1))

\* s2 loopMap.insertLoop, first half: descend to the innermost loop that
\* contains the new one.
RECURSIVE FindParent(_, _, _, _)
FindParent(lm, loops, new, parent) ==
    LET hits == {k \in 1..Len(lm[parent]) :
                    ContainsNested(loops[lm[parent][k]], loops[new])}
    IN  IF hits = {} THEN parent
        ELSE FindParent(lm, loops, new, lm[parent][MinOf(hits)])

\* s2 loopMap.insertLoop
InsertLoop(lm, loops, new) ==
    Bind(FindParent(lm, loops, new, 0), LAMBDA parent :
    Bind(SelectSeq(lm[parent], LAMBDA c : ContainsNested(loops[new], loops[c])), LAMBDA adopted :
    Bind(SelectSeq(lm[parent], LAMBDA c : ~ContainsNested(loops[new], loops[c])), LAMBDA kept :
        [lm EXCEPT ![new] = lm[new] \o adopted, ![parent] = kept \o <<new>>])))

RECURSIVE InsertAll(_, _, _)
InsertAll(lm, loops, i) ==
    IF i > Len(loops) THEN lm
    ELSE Bind(InsertLoop(lm, loops, i), LAMBDA lm2 : InsertAll(lm2, loops, i + 1))

\* s2 Polygon.initLoops: depth-first, children in order, depth = parent's + 1.
RECURSIVE InitLoops(_, _, _, _)
InitLoops(lm, loops, children, d) ==
    IF children = <<>> THEN <<>>
    ELSE LET c == Head(children)
         IN  <<[loops[c] EXCEPT !.depth = d]>>
               \o InitLoops(lm, loops, lm[c], d + 1)
               \o InitLoops(lm, loops, Tail(children), d)

PolygonFromLoops(pointers) ==
    Bind(pointers, LAMBDA loops :
        IF Len(loops) = 1 THEN [loops |-> <<[loops[1] EXCEPT !.depth = 0]>>]
        ELSE Bind(InsertAll([k \in 0..Len(loops) |-> <<>>], loops, 1), LAMBDA lm :
                [loops |-> InitLoops(lm, loops, lm[0], 0)]))

\* polygon.NumLoops(), polygon.Loop(i), polygon.Loops()
NumLoops(polygon) == Len(polygon.loops)
Loop(polygon, i) == At(polygon.loops, i)

---------------------------------------------------------------------------
(* encoding/wkb: constants, errors, the byte sink.                         *)

wkbXDR == 0
wkbNDR == 1
wkbPoint == 1
wkbLineString == 2
wkbPolygon == 3
wkbMultiPoint == 4
wkbMultiLineString == 5
wkbMultiPolygon == 6

\* An error value: nil, or what the code's fmt.Errorf / the reader / the sink gives.
MkErr(kind, found, expected, name) ==
    [kind |-> kind, found |-> found, expected |-> expected, name |-> name]

Nil == MkErr("nil", 0, {}, "")
ErrSink == MkErr("sink write error", 0, {}, "")
ErrEOF == MkErr("EOF", 0, {}, "")
ErrUnexpectedEOF == MkErr("unexpected EOF", 0, {}, "")
\* A run-time panic of the Go program (index out of range): the call never returns.
Panic == MkErr("panic", 0, {}, "")

\* The whole degrees of the model and their IEEE 754 binary64 bit patterns,
\* most significant byte first (the six low bytes of a whole degree are 0).
Degrees == 0..15

F64Hi(d) ==
    CASE d = 0 -> <<0, 0>>      [] d = 1 -> <<63, 240>>   [] d = 2 -> <<64, 0>>
      [] d = 3 -> <<64, 8>>     [] d = 4 -> <<64, 16>>    [] d = 5 -> <<64, 20>>
      [] d = 6 -> <<64, 24>>    [] d = 7 -> <<64, 28>>    [] d = 8 -> <<64, 32>>
      [] d = 9 -> <<64, 34>>    [] d = 10 -> <<64, 36>>   [] d = 11 -> <<64, 38>>
      [] d = 12 -> <<64, 40>>   [] d = 13 -> <<64, 42>>   [] d = 14 -> <<64, 44>>
      [] d = 15 -> <<64, 46>>

\* binary.Write(w, binary.BigEndian, float64): decode.go:350, 354
F64BE(d) == F64Hi(d) \o <<0, 0, 0, 0, 0, 0>>

\* binary.Write(w, binary.BigEndian, uint32): decode.go:369, 395, 430, ...
U32BE(v) == <<(v \div 16777216) % 256, (v \div 65536) % 256, (v \div 256) % 256, v % 256>>

\* Any float64 that is not a whole degree of the model.
OtherFloat == 1000

\* The io.Writer behind the encoder.  failAt = -1: every Write succeeds
\* (bytes.Buffer); otherwise the Write number failAt (from 0) returns an
\* error, and with sticky every later one too.
NewWriter(failAt, sticky) ==
    [out |-> <<>>, n |-> 0, failAt |-> failAt, sticky |-> sticky, failed |-> FALSE]

\* w.Write(p) / w.WriteByte(c): decode.go:578-585
Write(w, p) ==
    IF w.failAt >= 0 /\ (IF w.sticky THEN w.n >= w.failAt ELSE w.n = w.failAt)
    THEN [w |-> [w EXCEPT !.n = @ + 1, !.failed = TRUE], err |-> ErrSink]
    ELSE [w |-> [w EXCEPT !.n = @ + 1, !.out = @ \o p], err |-> Nil]

---------------------------------------------------------------------------
(* encoding/wkb: the encoder.  Every function returns the sink after the   *)
(* call and the error it returns.                                          *)

\* s2.LatLngFromPoint(point): decode.go:362, geoutil.go:49
LatLngFromPoint(point) == point

\* s2.PointFromLatLng(latLng): decode.go:80, 209, 300, geoutil.go:142
PointFromLatLng(latLng) == latLng

\* s2.LatLngFromDegrees(lat, lng): decode.go:64, geoutil.go:132
LatLngFromDegrees(lat, lng) == [lat |-> lat, lng |-> lng]

encodePointFromLatLng(w, latLng) ==
    Bind(Write(w, F64BE(latLng.lng)), LAMBDA r1 :
        IF r1.err # Nil THEN r1 ELSE Write(r1.w, F64BE(latLng.lat)))

encodePoint(w, point) == encodePointFromLatLng(w, LatLngFromPoint(point))

\* for i := 0; i < np; i++ { encodePoint(w, loop.OrientedVertex(i)) }
RECURSIVE encodeRingPoints(_, _, _, _)
encodeRingPoints(w, loop, i, np) ==
    IF i >= np THEN [w |-> w, err |-> Nil]
    ELSE Bind(encodePoint(w, OrientedVertex(loop, i)), LAMBDA r :
            IF r.err # Nil THEN r ELSE encodeRingPoints(r.w, loop, i + 1, np))

encodeLinearRing(w, loop) ==
    Bind(NumVertices(loop) + 1, LAMBDA np :
    Bind(Write(w, U32BE(np)), LAMBDA r0 :
        IF r0.err # Nil THEN r0 ELSE encodeRingPoints(r0.w, loop, 0, np)))

\* The two-write prefix of every geometry value: byte order, then type code.
encodePrefix(w, code) ==
    Bind(Write(w, <<wkbXDR>>), LAMBDA r1 :
        IF r1.err # Nil THEN r1 ELSE Write(r1.w, U32BE(code)))

\* A prefix, then a count (of points, rings or embedded values).
encodePrefixCount(w, code, n) ==
    Bind(encodePrefix(w, code), LAMBDA r :
        IF r.err # Nil THEN r ELSE Write(r.w, U32BE(n)))

encodeWKBPoint(w, point) ==
    Bind(encodePrefix(w, wkbPoint), LAMBDA r :
        IF r.err # Nil THEN r ELSE encodePoint(r.w, point))

encodeWKBPointFromLatLng(w, latLng) ==
    Bind(encodePrefix(w, wkbPoint), LAMBDA r :
        IF r.err # Nil THEN r ELSE encodePointFromLatLng(r.w, latLng))

RECURSIVE encodePoints(_, _, _)
encodePoints(w, points, i) ==
    IF i > Len(points) THEN [w |-> w, err |-> Nil]
    ELSE Bind(encodePoint(w, points[i]), LAMBDA r :
            IF r.err # Nil THEN r ELSE encodePoints(r.w, points, i + 1))

encodeWKBLineString(w, polyline) ==
    Bind(encodePrefixCount(w, wkbLineString, Len(polyline)), LAMBDA r :
        IF r.err # Nil THEN r ELSE encodePoints(r.w, polyline, 1))

\* for _, loop := range loops: an error of encodeLinearRing ends the
\* function with "return nil" (decode.go:461-463).
RECURSIVE encodeRings(_, _, _)
encodeRings(w, loops, i) ==
    IF i > Len(loops) THEN [w |-> w, err |-> Nil]
    ELSE Bind(encodeLinearRing(w, loops[i]), LAMBDA r :
            IF r.err # Nil THEN [w |-> r.w, err |-> Nil]
            ELSE encodeRings(r.w, loops, i + 1))

encodeWKBPolygon(w, loops) ==
    Bind(encodePrefixCount(w, wkbPolygon, Len(loops)), LAMBDA r :
        IF r.err # Nil THEN r ELSE encodeRings(r.w, loops, 1))

RECURSIVE encodeWKBPoints(_, _, _)
encodeWKBPoints(w, points, i) ==
    IF i > Len(points) THEN [w |-> w, err |-> Nil]
    ELSE Bind(encodeWKBPoint(w, points[i]), LAMBDA r :
            IF r.err # Nil THEN r ELSE encodeWKBPoints(r.w, points, i + 1))

encodeWKBMultiPoint(w, points) ==
    Bind(encodePrefixCount(w, wkbMultiPoint, Len(points)), LAMBDA r :
        IF r.err # Nil THEN r ELSE encodeWKBPoints(r.w, points, 1))

RECURSIVE encodeWKBLineStrings(_, _, _)
encodeWKBLineStrings(w, polylines, i) ==
    IF i > Len(polylines) THEN [w |-> w, err |-> Nil]
    ELSE Bind(encodeWKBLineString(w, polylines[i]), LAMBDA r :
            IF r.err # Nil THEN r ELSE encodeWKBLineStrings(r.w, polylines, i + 1))

encodeWKBMultiLineString(w, polylines) ==
    Bind(encodePrefixCount(w, wkbMultiLineString, Len(polylines)), LAMBDA r :
        IF r.err # Nil THEN r ELSE encodeWKBLineStrings(r.w, polylines, 1))

\* ns: the number of loops that are not holes (decode.go:525-531, geoutil.go:96-102)
CountShells(polygon) == Cardinality({i \in 1..NumLoops(polygon) : ~IsHole(polygon.loops[i])})

\* A fault: a run ends right after its shell.
RunEnd_shellOnly(polygon, j) == j

\* j := i + 1; for ; j < nl && polygon.Loop(j).IsHole(); j++ {}   (0-based i, j)
RECURSIVE RunEnd(_, _)
RunEnd(polygon, j) ==
    IF j < NumLoops(polygon) /\ IsHole(Loop(polygon, j)) THEN RunEnd(polygon, j + 1) ELSE j

\* for i := 0; i < nl; { ...; encodeWKBPolygon(w, loops[i:j]); i = j }
RECURSIVE encodeRuns(_, _, _)
encodeRuns(w, polygon, i) ==
    IF i >= NumLoops(polygon) THEN [w |-> w, err |-> Nil]
    ELSE Bind(RunEnd(polygon, i + 1), LAMBDA j :
         Bind(encodeWKBPolygon(w, SubSeq(polygon.loops, i + 1, j)), LAMBDA r :
            IF r.err # Nil THEN r ELSE encodeRuns(r.w, polygon, j)))

encodeWKBMultiPolygon(w, polygon) ==
    Bind(CountShells(polygon), LAMBDA ns :
        IF ns <= 1 THEN encodeWKBPolygon(w, polygon.loops)
        ELSE Bind(encodePrefixCount(w, wkbMultiPolygon, ns), LAMBDA r :
                IF r.err # Nil THEN r ELSE encodeRuns(r.w, polygon, 0)))

ZeroLatLng == LatLngFromDegrees(0, 0)
ZeroPolygon == [loops |-> <<>>]

\* A Go value held in an interface{}: its dynamic type (shape) and, in the
\* field of that type, its content; the other fields are not part of it.
Val(shape, pt, pts, lines, poly) ==
    [shape |-> shape, pt |-> pt, pts |-> pts, lines |-> lines, poly |-> poly]

VLatLng(p) == Val("LatLng", p, <<>>, <<>>, ZeroPolygon)
VPoint(p) == Val("Point", p, <<>>, <<>>, ZeroPolygon)
VPolyline(q) == Val("Polyline", ZeroLatLng, q, <<>>, ZeroPolygon)
VPoints(q) == Val("Points", ZeroLatLng, q, <<>>, ZeroPolygon)
VPolylines(qq) == Val("Polylines", ZeroLatLng, <<>>, qq, ZeroPolygon)
VPolygon(g) == Val("Polygon", ZeroLatLng, <<>>, <<>>, g)
VOther == Val("Other", ZeroLatLng, <<>>, <<>>, ZeroPolygon)

\* The shapes of value Encode accepts, and of destination Unmarshal accepts
\* (there as pointers).  Any other Go type has shape "Other".
Supported == {"LatLng", "Point", "Polyline", "Points", "Polylines", "Polygon"}

\* Encoder.Encode, on the sink w.
Encode(w, v) ==
    CASE v.shape = "LatLng" -> encodeWKBPointFromLatLng(w, v.pt)
      [] v.shape = "Point" -> encodeWKBPoint(w, v.pt)
      [] v.shape = "Polyline" -> encodeWKBLineString(w, v.pts)
      [] v.shape = "Points" -> encodeWKBMultiPoint(w, v.pts)
      [] v.shape = "Polylines" -> encodeWKBMultiLineString(w, v.lines)
      [] v.shape = "Polygon" -> encodeWKBMultiPolygon(w, v.poly)
      [] OTHER -> [w |-> w, err |-> MkErr("wkb: unknown geometry type", 0, {}, v.shape)]

\* Marshal: Encode into a bytes.Buffer; the bytes only when Encode returned nil.
Marshal(v) ==
    Bind(Encode(NewWriter(-1, FALSE), v), LAMBDA r :
        IF r.err # Nil THEN [data |-> <<>>, err |-> r.err]
        ELSE [data |-> r.w.out, err |-> Nil])

---------------------------------------------------------------------------
(* encoding/wkb: the decoder.  The reader is the byte slice and an offset; *)
(* every function returns the error, the value and the offset after it.    *)

Ret(err, v, pos) == [err |-> err, v |-> v, pos |-> pos]

\* r.ReadByte() of bytes.Reader
ReadByte(data, pos) ==
    IF pos >= Len(data) THEN Ret(ErrEOF, 0, pos)
    ELSE Ret(Nil, At(data, pos), pos + 1)

\* The io.ReadFull of binary.Read: n bytes, io.EOF when none is left,
\* io.ErrUnexpectedEOF when fewer than n are.
ReadFull(data, pos, n) ==
    IF pos >= Len(data) THEN Ret(ErrEOF, <<>>, pos)
    ELSE IF Len(data) - pos < n THEN Ret(ErrUnexpectedEOF, <<>>, Len(data))
    ELSE Ret(Nil, SubSeq(data, pos + 1, pos + n), pos + n)

\* order.Uint32(bs)
U32Of(bs, order) ==
    Bind(IF order = "BigEndian" THEN bs ELSE Reverse(bs), LAMBDA be :
        be[1] * 16777216 + be[2] * 65536 + be[3] * 256 + be[4])

\* math.Float64frombits(order.Uint64(bs))
F64Of(bs, order) ==
    Bind(IF order = "BigEndian" THEN bs ELSE Reverse(bs), LAMBDA be :
        IF \E d \in Degrees : F64BE(d) = be
        THEN CHOOSE d \in Degrees : F64BE(d) = be
        ELSE OtherFloat)

\* binary.Read(r, order, &uint32)
ReadU32(data, pos, order) ==
    Bind(ReadFull(data, pos, 4), LAMBDA r :
        IF r.err # Nil THEN Ret(r.err, 0, r.pos) ELSE Ret(Nil, U32Of(r.v, order), r.pos))

\* binary.Read(r, order, &float64)
ReadF64(data, pos, order) ==
    Bind(ReadFull(data, pos, 8), LAMBDA r :
        IF r.err # Nil THEN Ret(r.err, 0, r.pos) ELSE Ret(Nil, F64Of(r.v, order), r.pos))

\* A fault: any marker other than 0 read as little-endian.
decodeOrder_lenient(data, pos) ==
    Bind(ReadByte(data, pos), LAMBDA r :
        IF r.err # Nil THEN Ret(r.err, "", r.pos)
        ELSE IF r.v = wkbXDR THEN Ret(Nil, "BigEndian", r.pos)
        ELSE Ret(Nil, "LittleEndian", r.pos))

decodeOrder(data, pos) ==
    Bind(ReadByte(data, pos), LAMBDA r :
        IF r.err # Nil THEN Ret(r.err, "", r.pos)
        ELSE IF r.v = wkbXDR THEN Ret(Nil, "BigEndian", r.pos)
        ELSE IF r.v = wkbNDR THEN Ret(Nil, "LittleEndian", r.pos)
        ELSE Ret(MkErr("wkb: unknown byte order", r.v, {}, ""), "", r.pos))

decodeGeometryType(data, pos, order) == ReadU32(data, pos, order)

verifyGeometryType(data, pos, order, expectedGeometryType) ==
    Bind(decodeGeometryType(data, pos, order), LAMBDA r :
        IF r.err # Nil THEN r
        ELSE IF r.v # expectedGeometryType
        THEN Ret(MkErr("wkb: invalid geometry type", r.v, {expectedGeometryType}, ""), 0, r.pos)
        ELSE Ret(Nil, 0, r.pos))

\* The prefix of a value whose type code must be expectedGeometryType:
\* order, err := decodeOrder(r); err := verifyGeometryType(r, order, ...).
\* The value returned is the byte order.
decodePrefix(data, pos, expectedGeometryType) ==
    Bind(decodeOrder(data, pos), LAMBDA ro :
        IF ro.err # Nil THEN ro
        ELSE Bind(verifyGeometryType(data, ro.pos, ro.v, expectedGeometryType), LAMBDA rt :
                IF rt.err # Nil THEN Ret(rt.err, "", rt.pos) ELSE Ret(Nil, ro.v, rt.pos)))

\* A fault: the two coordinates read latitude first.
decodePoint_latFirst(data, pos, order) ==
    Bind(ReadF64(data, pos, order), LAMBDA r1 :
        IF r1.err # Nil THEN Ret(r1.err, ZeroLatLng, r1.pos)
        ELSE Bind(ReadF64(data, r1.pos, order), LAMBDA r2 :
                IF r2.err # Nil THEN Ret(r2.err, ZeroLatLng, r2.pos)
                ELSE Ret(Nil, LatLngFromDegrees(r1.v, r2.v), r2.pos)))

decodePoint(data, pos, order) ==
    Bind(ReadF64(data, pos, order), LAMBDA r1 :
        IF r1.err # Nil THEN Ret(r1.err, ZeroLatLng, r1.pos)
        ELSE Bind(ReadF64(data, r1.pos, order), LAMBDA r2 :
                IF r2.err # Nil THEN Ret(r2.err, ZeroLatLng, r2.pos)
                ELSE Ret(Nil, LatLngFromDegrees(r2.v, r1.v), r2.pos)))

\* for k := range points { latLng, err := decodePoint(r, order); ... }
RECURSIVE decodePoints(_, _, _, _, _)
decodePoints(data, pos, order, n, acc) ==
    IF n = 0 THEN Ret(Nil, acc, pos)
    ELSE Bind(decodePoint(data, pos, order), LAMBDA r :
            IF r.err # Nil THEN Ret(r.err, <<>>, r.pos)
            ELSE Bind([n |-> n - 1, acc |-> Append(acc, PointFromLatLng(r.v))], LAMBDA s :
                    decodePoints(data, r.pos, order, s.n, s.acc)))

\* A fault: the closing point is kept.
DropClosingPoint_never(points) == points

\* if l := len(points) - 1; points[0] == points[l] { points = points[:l] }
\* (decode.go:84-86, geoutil.go:160-162); indexing an empty slice panics.
DropClosingPoint(points) ==
    IF points[1] = points[Len(points)] THEN SubSeq(points, 1, Len(points) - 1) ELSE points

decodeLinearRing(data, pos, order) ==
    Bind(ReadU32(data, pos, order), LAMBDA rn :
        IF rn.err # Nil THEN Ret(rn.err, <<>>, rn.pos)
        ELSE Bind(decodePoints(data, rn.pos, order, rn.v, <<>>), LAMBDA rp :
                IF rp.err # Nil THEN Ret(rp.err, <<>>, rp.pos)
                ELSE IF rp.v = <<>> THEN Ret(Panic, <<>>, rp.pos)
                ELSE Ret(Nil, LoopFromPoints(DropClosingPoint(rp.v)), rp.pos)))

decodeWKBPoint(data, pos) ==
    Bind(decodePrefix(data, pos, wkbPoint), LAMBDA ro :
        IF ro.err # Nil THEN Ret(ro.err, ZeroLatLng, ro.pos)
        ELSE decodePoint(data, ro.pos, ro.v))

decodeWKBLineString(data, pos) ==
    Bind(decodePrefix(data, pos, wkbLineString), LAMBDA ro :
        IF ro.err # Nil THEN Ret(ro.err, <<>>, ro.pos)
        ELSE Bind(ReadU32(data, ro.pos, ro.v), LAMBDA rn :
                IF rn.err # Nil THEN Ret(rn.err, <<>>, rn.pos)
                ELSE decodePoints(data, rn.pos, ro.v, rn.v, <<>>)))

\* A fault: the probe is vertex 0 of the first loop.
windLoop_vertex0(loop, j, polygonLoops) ==
    IF j = 0 THEN Normalize(loop)
    ELSE IF ContainsPoint(loop, Vertex(At(polygonLoops, 0), 0)) THEN Invert(loop)
    ELSE loop

\* The winding-order switch of decodePolygonLoopsPartial (decode.go:152-157):
\* loop number j of the value, polygonLoops the loops decoded before it.
windLoop(loop, j, polygonLoops) ==
    IF j = 0 THEN Normalize(loop)
    ELSE IF ContainsPoint(loop, Vertex(At(polygonLoops, 0), 1)) THEN Invert(loop)
    ELSE loop

\* for j := range polygonLoops { ... }; polygonLoops[0].Vertex(1) divides by
\* the number of vertices and panics when the first loop has none.
RECURSIVE decodeRings(_, _, _, _, _)
decodeRings(data, pos, order, nlr, polygonLoops) ==
    IF Len(polygonLoops) = nlr THEN Ret(Nil, polygonLoops, pos)
    ELSE Bind(decodeLinearRing(data, pos, order), LAMBDA r :
            IF r.err # Nil THEN Ret(r.err, <<>>, r.pos)
            ELSE IF Len(polygonLoops) > 0 /\ NumVertices(At(polygonLoops, 0)) = 0
            THEN Ret(Panic, <<>>, r.pos)
            ELSE Bind(Append(polygonLoops, windLoop(r.v, Len(polygonLoops), polygonLoops)),
                      LAMBDA loops : decodeRings(data, r.pos, order, nlr, loops)))

decodePolygonLoopsPartial(data, pos, order) ==
    Bind(ReadU32(data, pos, order), LAMBDA rn :
        IF rn.err # Nil THEN Ret(rn.err, <<>>, rn.pos)
        ELSE decodeRings(data, rn.pos, order, rn.v, <<>>))

decodeWKBPolygonLoops(data, pos) ==
    Bind(decodePrefix(data, pos, wkbPolygon), LAMBDA ro :
        IF ro.err # Nil THEN Ret(ro.err, <<>>, ro.pos)
        ELSE decodePolygonLoopsPartial(data, ro.pos, ro.v))

decodeWKBPolygonPartial(data, pos, order) ==
    Bind(decodePolygonLoopsPartial(data, pos, order), LAMBDA r :
        IF r.err # Nil THEN Ret(r.err, ZeroPolygon, r.pos)
        ELSE Ret(Nil, PolygonFromLoops(r.v), r.pos))

\* for i := range points { point, err := decodeWKBPoint(r); ... }
RECURSIVE decodeWKBPoints(_, _, _, _)
decodeWKBPoints(data, pos, n, acc) ==
    IF n = 0 THEN Ret(Nil, acc, pos)
    ELSE Bind(decodeWKBPoint(data, pos), LAMBDA r :
            IF r.err # Nil THEN Ret(r.err, <<>>, r.pos)
            ELSE Bind([n |-> n - 1, acc |-> Append(acc, PointFromLatLng(r.v))], LAMBDA s :
                    decodeWKBPoints(data, r.pos, s.n, s.acc)))

decodeWKBMultiPoint(data, pos) ==
    Bind(decodePrefix(data, pos, wkbMultiPoint), LAMBDA ro :
        IF ro.err # Nil THEN Ret(ro.err, <<>>, ro.pos)
        ELSE Bind(ReadU32(data, ro.pos, ro.v), LAMBDA rn :
                IF rn.err # Nil THEN Ret(rn.err, <<>>, rn.pos)
                ELSE decodeWKBPoints(data, rn.pos, rn.v, <<>>)))

\* for i := range polylines { polyline, err := decodeWKBLineString(r); ... }
RECURSIVE decodeWKBLineStrings(_, _, _, _)
decodeWKBLineStrings(data, pos, n, acc) ==
    IF n = 0 THEN Ret(Nil, acc, pos)
    ELSE Bind(decodeWKBLineString(data, pos), LAMBDA r :
            IF r.err # Nil THEN Ret(r.err, <<>>, r.pos)
            ELSE Bind([n |-> n - 1, acc |-> Append(acc, r.v)], LAMBDA s :
                    decodeWKBLineStrings(data, r.pos, s.n, s.acc)))

decodeWKBMultiLineString(data, pos) ==
    Bind(decodePrefix(data, pos, wkbMultiLineString), LAMBDA ro :
        IF ro.err # Nil THEN Ret(ro.err, <<>>, ro.pos)
        ELSE Bind(ReadU32(data, ro.pos, ro.v), LAMBDA rn :
                IF rn.err # Nil THEN Ret(rn.err, <<>>, rn.pos)
                ELSE decodeWKBLineStrings(data, rn.pos, rn.v, <<>>)))

\* for i := uint32(0); i < n; i++ { polygonLoops, err := decodeWKBPolygonLoops(r);
\*     multiPolygonLoops = append(multiPolygonLoops, polygonLoops...) }
RECURSIVE decodeWKBPolygons(_, _, _, _)
decodeWKBPolygons(data, pos, n, multiPolygonLoops) ==
    IF n = 0 THEN Ret(Nil, multiPolygonLoops, pos)
    ELSE Bind(decodeWKBPolygonLoops(data, pos), LAMBDA r :
            IF r.err # Nil THEN Ret(r.err, <<>>, r.pos)
            ELSE Bind([n |-> n - 1, acc |-> multiPolygonLoops \o r.v], LAMBDA s :
                    decodeWKBPolygons(data, r.pos, s.n, s.acc)))

decodeWKBMultiPolygonPartial(data, pos, order) ==
    Bind(ReadU32(data, pos, order), LAMBDA rn :
        IF rn.err # Nil THEN Ret(rn.err, ZeroPolygon, rn.pos)
        ELSE Bind(decodeWKBPolygons(data, rn.pos, rn.v, <<>>), LAMBDA rl :
                IF rl.err # Nil THEN Ret(rl.err, ZeroPolygon, rl.pos)
                ELSE Ret(Nil, PolygonFromLoops(rl.v), rl.pos)))

decodeWKBPolygonOrMultiPolygon(data, pos) ==
    Bind(decodeOrder(data, pos), LAMBDA ro :
        IF ro.err # Nil THEN Ret(ro.err, ZeroPolygon, ro.pos)
        ELSE Bind(decodeGeometryType(data, ro.pos, ro.v), LAMBDA rt :
                IF rt.err # Nil THEN Ret(rt.err, ZeroPolygon, rt.pos)
                ELSE IF rt.v = wkbPolygon THEN decodeWKBPolygonPartial(data, rt.pos, ro.v)
                ELSE IF rt.v = wkbMultiPolygon
                THEN decodeWKBMultiPolygonPartial(data, rt.pos, ro.v)
                ELSE Ret(MkErr("wkb: invalid geometry type", rt.v,
                               {wkbPolygon, wkbMultiPolygon}, ""),
                         ZeroPolygon, rt.pos)))

\* The type switch of Unmarshal (decode.go:285-333): the error of the case's
\* decoder and, when it is nil, the value assigned through the destination
\* pointer.  No case matches any other destination.
decodeFor(shape, data) ==
    CASE shape = "LatLng" ->
            Bind(decodeWKBPoint(data, 0), LAMBDA r : [err |-> r.err, v |-> VLatLng(r.v)])
      [] shape = "Point" ->
            Bind(decodeWKBPoint(data, 0), LAMBDA r :
                [err |-> r.err, v |-> VPoint(PointFromLatLng(r.v))])
      [] shape = "Polyline" ->
            Bind(decodeWKBLineString(data, 0), LAMBDA r : [err |-> r.err, v |-> VPolyline(r.v)])
      [] shape = "Polygon" ->
            Bind(decodeWKBPolygonOrMultiPolygon(data, 0), LAMBDA r :
                [err |-> r.err, v |-> VPolygon(r.v)])
      [] shape = "Points" ->
            Bind(decodeWKBMultiPoint(data, 0), LAMBDA r : [err |-> r.err, v |-> VPoints(r.v)])
      [] shape = "Polylines" ->
            Bind(decodeWKBMultiLineString(data, 0), LAMBDA r :
                [err |-> r.err, v |-> VPolylines(r.v)])

\* A fault: a default case in the type switch that returns an error.
Unmarshal_strict(data, v) ==
    IF v.shape \notin Supported
    THEN [err |-> MkErr("wkb: unknown geometry type", 0, {}, v.shape), v |-> v]
    ELSE Bind(decodeFor(v.shape, data), LAMBDA r :
            IF r.err # Nil THEN [err |-> r.err, v |-> v] ELSE [err |-> Nil, v |-> r.v])

\* Unmarshal(data, v): the error returned and the destination afterwards.
Unmarshal(data, v) ==
    IF v.shape \notin Supported THEN [err |-> Nil, v |-> v]
    ELSE Bind(decodeFor(v.shape, data), LAMBDA r :
            IF r.err # Nil THEN [err |-> r.err, v |-> v] ELSE [err |-> Nil, v |-> r.v])

---------------------------------------------------------------------------
(* geoutil: the coordinate arrays of the GeoJSON form.  A position is the  *)
(* array <<lng, lat>>.  Functions that return (value, error) return the    *)
(* record [err, v].                                                        *)

PrecisionMax == 0
PrecisionE5 == 1
PrecisionE6 == 2
PrecisionE7 == 3

\* a.Degrees(); float64(a.E5()) / 1e5; ... on an angle of a whole degrees
precisionMax(a) == a
precisionE5(a) == (a * 100000) \div 100000
precisionE6(a) == (a * 1000000) \div 1000000
precisionE7(a) == (a * 10000000) \div 10000000

\* The function value selectPrecisionFunc returns is held by its name.
selectPrecisionFunc(precision) ==
    CASE precision = PrecisionMax -> [err |-> Nil, v |-> "precisionMax"]
      [] precision = PrecisionE5 -> [err |-> Nil, v |-> "precisionE5"]
      [] precision = PrecisionE6 -> [err |-> Nil, v |-> "precisionE6"]
      [] precision = PrecisionE7 -> [err |-> Nil, v |-> "precisionE7"]
      [] OTHER -> [err |-> MkErr("geoutil: invalid precision level", precision, {}, ""), v |-> ""]

\* precisionFunc(a)
Call(precisionFunc, a) ==
    CASE precisionFunc = "precisionMax" -> precisionMax(a)
      [] precisionFunc = "precisionE5" -> precisionE5(a)
      [] precisionFunc = "precisionE6" -> precisionE6(a)
      [] precisionFunc = "precisionE7" -> precisionE7(a)

pointCoordinates(point, precisionFunc) ==
    Bind(LatLngFromPoint(point), LAMBDA latLng :
        <<Call(precisionFunc, latLng.lng), Call(precisionFunc, latLng.lat)>>)

loopCoordinates(loop, precisionFunc) ==
    Bind(NumVertices(loop), LAMBDA nv :
        IF nv = 0 THEN <<>>
        ELSE Bind([j \in 1..nv |-> pointCoordinates(OrientedVertex(loop, j - 1), precisionFunc)],
                  LAMBDA lcs : Append(lcs, lcs[1])))

\* The inner loop of PolygonCoordinates (geoutil.go:108-119): from loop i, the
\* index it stops at and the rings appended to pcs.
RECURSIVE polygonRun(_, _, _, _, _)
polygonRun(polygon, i, hole, pcs, precisionFunc) ==
    IF i >= NumLoops(polygon) THEN [i |-> i, pcs |-> pcs]
    ELSE IF hole /\ ~IsHole(Loop(polygon, i)) THEN [i |-> i, pcs |-> pcs]
    ELSE Bind(Append(pcs, loopCoordinates(Loop(polygon, i), precisionFunc)), LAMBDA pcs2 :
            polygonRun(polygon, i + 1, TRUE, pcs2, precisionFunc))

\* The outer loop of PolygonCoordinates (geoutil.go:105-122).
RECURSIVE polygonRuns(_, _, _, _)
polygonRuns(polygon, i, mpcs, precisionFunc) ==
    IF i >= NumLoops(polygon) THEN mpcs
    ELSE Bind(polygonRun(polygon, i, FALSE, <<>>, precisionFunc), LAMBDA r :
         Bind(Append(mpcs, r.pcs), LAMBDA mpcs2 :
            polygonRuns(polygon, r.i, mpcs2, precisionFunc)))

PolygonCoordinates(polygon, precision) ==
    Bind(selectPrecisionFunc(precision), LAMBDA rf :
        IF rf.err # Nil THEN [err |-> rf.err, v |-> <<>>]
        ELSE [err |-> Nil, v |-> polygonRuns(polygon, 0, <<>>, rf.v)])

unmarshalLatLng(coords) ==
    IF Len(coords) # 2
    THEN [err |-> MkErr("geoutil: cannot process coordinates with dimension", Len(coords), {}, ""),
          v |-> ZeroLatLng]
    ELSE [err |-> Nil, v |-> LatLngFromDegrees(coords[2], coords[1])]

unmarshalPoint(coords) ==
    Bind(unmarshalLatLng(coords), LAMBDA r :
        IF r.err # Nil THEN r ELSE [err |-> Nil, v |-> PointFromLatLng(r.v)])

\* for _, pointCoords := range linearRingCoords { ... unmarshalPoint ... }
\* (also the loops of PointsFromMultiPointCoordinates and, with
\* unmarshalLatLng, of PolylineFromLineStringCoordinates)
RECURSIVE unmarshalPoints(_, _, _)
unmarshalPoints(coords, k, points) ==
    IF k > Len(coords) THEN [err |-> Nil, v |-> points]
    ELSE Bind(unmarshalPoint(coords[k]), LAMBDA r :
            IF r.err # Nil THEN [err |-> r.err, v |-> <<>>]
            ELSE Bind(Append(points, r.v), LAMBDA points2 :
                    unmarshalPoints(coords, k + 1, points2)))

\* The winding-order switch of unmarshalLoops (geoutil.go:167-172).
windRing(loop, shell, loops) ==
    IF Len(loops) <= shell THEN Normalize(loop)
    ELSE IF ContainsPoint(loop, Vertex(At(loops, shell), 0)) THEN Invert(loop)
    ELSE loop

\* for _, linearRingCoords := range polygonCoords { ... } (geoutil.go:148-175);
\* (*loops)[shell].Vertex(0) panics when that loop has no vertices.
RECURSIVE unmarshalRings(_, _, _, _)
unmarshalRings(loops, shell, polygonCoords, k) ==
    IF k > Len(polygonCoords) THEN [err |-> Nil, v |-> loops]
    ELSE Bind(unmarshalPoints(polygonCoords[k], 1, <<>>), LAMBDA r :
            IF r.err # Nil THEN [err |-> r.err, v |-> loops]
            ELSE IF r.v = <<>> THEN [err |-> Panic, v |-> loops]
            ELSE IF Len(loops) > shell /\ NumVertices(At(loops, shell)) = 0
            THEN [err |-> Panic, v |-> loops]
            ELSE Bind(Append(loops, windRing(LoopFromPoints(DropClosingPoint(r.v)), shell, loops)),
                      LAMBDA loops2 : unmarshalRings(loops2, shell, polygonCoords, k + 1)))

\* A fault: the shell is the first loop of the slice, whatever it holds.
unmarshalLoops_anchored(ptr, polygonCoords) ==
    Bind(ptr, LAMBDA loops : unmarshalRings(loops, 0, polygonCoords, 1))

unmarshalLoops(ptr, polygonCoords) ==
    Bind(ptr, LAMBDA loops : unmarshalRings(loops, Len(loops), polygonCoords, 1))

PointFromPointCoordinates(coords) == unmarshalPoint(coords)

PolylineFromLineStringCoordinates(coords) == unmarshalPoints(coords, 1, <<>>)

PolygonFromPolygonCoordinates(coords) ==
    Bind(unmarshalLoops(<<>>, coords), LAMBDA r :
        IF r.err # Nil THEN [err |-> r.err, v |-> ZeroPolygon]
        ELSE [err |-> Nil, v |-> PolygonFromLoops(r.v)])

PointsFromMultiPointCoordinates(coords) == unmarshalPoints(coords, 1, <<>>)

RECURSIVE unmarshalPolylines(_, _, _)
unmarshalPolylines(coords, i, polylines) ==
    IF i > Len(coords) THEN [err |-> Nil, v |-> polylines]
    ELSE Bind(PolylineFromLineStringCoordinates(coords[i]), LAMBDA r :
            IF r.err # Nil THEN [err |-> r.err, v |-> <<>>]
            ELSE Bind(Append(polylines, r.v), LAMBDA polylines2 :
                    unmarshalPolylines(coords, i + 1, polylines2)))

PolylinesFromMultiLineStringCoordinates(coords) == unmarshalPolylines(coords, 1, <<>>)

\* for _, polygonCoords := range coords { unmarshalLoops(&loops, polygonCoords) }
RECURSIVE unmarshalPolygons(_, _, _)
unmarshalPolygons(loops, coords, i) ==
    IF i > Len(coords) THEN [err |-> Nil, v |-> loops]
    ELSE Bind(unmarshalLoops(loops, coords[i]), LAMBDA r :
            IF r.err # Nil THEN r ELSE unmarshalPolygons(r.v, coords, i + 1))

PolygonFromMultiPolygonCoordinates(coords) ==
    Bind(unmarshalPolygons(<<>>, coords, 1), LAMBDA r :
        IF r.err # Nil THEN [err |-> r.err, v |-> ZeroPolygon]
        ELSE [err |-> Nil, v |-> PolygonFromLoops(r.v)])

---------------------------------------------------------------------------
(* geojson: JSON text is held as the document it denotes.  An object is a  *)
(* record of its members, each with a tag t that says whether the key is   *)
(* "absent", holds "null", or holds a value of some JSON type.  The        *)
(* coordinates member holds its arrays wrapped to nesting 4 and the        *)
(* nesting it was written with: the position p is <<<<<<p>>>>>> at depth 1,*)
(* a polygon's ring list pcs is <<pcs>> at depth 3.                        *)

Coords(depth, a) == [depth |-> depth, a |-> a]
NoCoords == Coords(0, <<>>)

\* The "geometry" member of a Feature object.
JGeometry(t, gtype, coords) == [t |-> t, gtype |-> gtype, coords |-> coords]
JAbsent == JGeometry("absent", "", NoCoords)
JNull == JGeometry("null", "", NoCoords)

\* The "features" member of a FeatureCollection object.
JFeatures(t, a) == [t |-> t, a |-> a]

\* A JSON object with the members the package reads and writes.
JDoc(type, id, properties, geometry, features) ==
    [type |-> type, id |-> id, properties |-> properties, geometry |-> geometry,
     features |-> features]

\* No bytes at all: the nil []byte returned with an error.
NoDoc == JDoc("", "absent", "absent", JAbsent, JFeatures("absent", <<>>))

\* A json.RawMessage: nil, or the bytes of a member's value.
RawNil == JGeometry("nil", "", NoCoords)

\* The errors of encoding/json on text whose arrays do not fit the Go type.
ErrJSON == MkErr("json: cannot unmarshal", 0, {}, "")

\* type Feature struct { ID; Properties; Geometry; Precision }.  ID and
\* Properties are held by their dynamic type, Geometry as a value of the
\* wkb section, with shape "nil" for the nil interface.
Feature(ID, Properties, Geometry, Precision) ==
    [ID |-> ID, Properties |-> Properties, Geometry |-> Geometry, Precision |-> Precision]

VNil == Val("nil", ZeroLatLng, <<>>, <<>>, ZeroPolygon)

\* type rawFeature struct, with its json tags (wkb.go:74-79)
rawFeature(ID, Type, Properties, Geometry) ==
    [ID |-> ID, Type |-> Type, Properties |-> Properties, Geometry |-> Geometry]

\* json.Marshal(polygonCoordinates[0]), json.Marshal(polygonCoordinates) and
\* json.Marshal(rg) of marshalPolygon: the geometry object.
marshalPolygon(polygon, precision) ==
    Bind(PolygonCoordinates(polygon, precision), LAMBDA r :
        IF r.err # Nil THEN [err |-> r.err, v |-> RawNil]
        ELSE IF Len(r.v) = 1
        THEN [err |-> Nil, v |-> JGeometry("object", "Polygon", Coords(3, <<r.v[1]>>))]
        ELSE [err |-> Nil, v |-> JGeometry("object", "MultiPolygon", Coords(4, r.v))])

\* A fault: the "geometry" tag with omitempty.
jsonMarshalRawFeature_omitempty(rf) ==
    JDoc(rf.Type,
         CASE rf.ID = "nil" -> "absent"
           [] rf.ID = "string" -> "string"
           [] rf.ID = "float64" -> "number",
         IF rf.Properties = "nil" THEN "null" ELSE "object",
         IF rf.Geometry.t = "nil" THEN JAbsent ELSE rf.Geometry,
         JFeatures("absent", <<>>))

\* json.Marshal(rf) for a rawFeature: "id" has omitempty and is left out for
\* the nil interface; "properties" and "geometry" have not, and a nil map and
\* a nil RawMessage are both written as null.
jsonMarshalRawFeature(rf) ==
    JDoc(rf.Type,
         CASE rf.ID = "nil" -> "absent"
           [] rf.ID = "string" -> "string"
           [] rf.ID = "float64" -> "number",
         IF rf.Properties = "nil" THEN "null" ELSE "object",
         IF rf.Geometry.t = "nil" THEN JNull ELSE rf.Geometry,
         JFeatures("absent", <<>>))

\* json.Unmarshal(data, rf) for a rawFeature: an absent key leaves the field
\* at its zero value; null leaves ID and Properties nil, and a RawMessage
\* takes the bytes "null".
jsonUnmarshalRawFeature(doc) ==
    rawFeature(CASE doc.id \in {"absent", "null"} -> "nil"
                 [] doc.id = "string" -> "string"
                 [] doc.id = "number" -> "float64"
                 [] doc.id = "bool" -> "bool",
               doc.type,
               IF doc.properties = "object" THEN "map" ELSE "nil",
               IF doc.geometry.t = "absent" THEN RawNil ELSE doc.geometry)

\* json.Unmarshal(rg.Coordinates, &coords) into arrays of nesting depth.
jsonUnmarshalCoordinates(coords, depth) ==
    IF coords.depth # depth THEN [err |-> ErrJSON, v |-> <<>>]
    ELSE [err |-> Nil,
          v |-> CASE depth = 1 -> coords.a[1][1][1]
                  [] depth = 2 -> coords.a[1][1]
                  [] depth = 3 -> coords.a[1]
                  [] depth = 4 -> coords.a]

\* What a case of the switch on rg.Type gives from the result r of the
\* geoutil conversion: its error, or the geometry f.Geometry takes.
geometryResult(r, geometry) ==
    IF r.err # Nil THEN [err |-> r.err, v |-> VNil] ELSE [err |-> Nil, v |-> geometry]

\* The switch on rg.Type (wkb.go:107-188).
decodeGeometry(rg) ==
    CASE rg.gtype = "Point" ->
            Bind(jsonUnmarshalCoordinates(rg.coords, 1), LAMBDA rc :
                IF rc.err # Nil THEN geometryResult(rc, VNil)
                ELSE Bind(PointFromPointCoordinates(rc.v), LAMBDA r :
                        geometryResult(r, VPoint(r.v))))
      [] rg.gtype = "LineString" ->
            Bind(jsonUnmarshalCoordinates(rg.coords, 2), LAMBDA rc :
                IF rc.err # Nil THEN geometryResult(rc, VNil)
                ELSE Bind(PolylineFromLineStringCoordinates(rc.v), LAMBDA r :
                        geometryResult(r, VPolyline(r.v))))
      [] rg.gtype = "Polygon" ->
            Bind(jsonUnmarshalCoordinates(rg.coords, 3), LAMBDA rc :
                IF rc.err # Nil THEN geometryResult(rc, VNil)
                ELSE Bind(PolygonFromPolygonCoordinates(rc.v), LAMBDA r :
                        geometryResult(r, VPolygon(r.v))))
      [] rg.gtype = "MultiPoint" ->
            Bind(jsonUnmarshalCoordinates(rg.coords, 2), LAMBDA rc :
                IF rc.err # Nil THEN geometryResult(rc, VNil)
                ELSE Bind(PointsFromMultiPointCoordinates(rc.v), LAMBDA r :
                        geometryResult(r, VPoints(r.v))))
      [] rg.gtype = "MultiLineString" ->
            Bind(jsonUnmarshalCoordinates(rg.coords, 3), LAMBDA rc :
                IF rc.err # Nil THEN geometryResult(rc, VNil)
                ELSE Bind(PolylinesFromMultiLineStringCoordinates(rc.v), LAMBDA r :
                        geometryResult(r, VPolylines(r.v))))
      [] rg.gtype = "MultiPolygon" ->
            Bind(jsonUnmarshalCoordinates(rg.coords, 4), LAMBDA rc :
                IF rc.err # Nil THEN geometryResult(rc, VNil)
                ELSE Bind(PolygonFromMultiPolygonCoordinates(rc.v), LAMBDA r :
                        geometryResult(r, VPolygon(r.v))))
      [] OTHER -> [err |-> MkErr("geojson: invalid Feature Geometry Type value", 0, {}, rg.gtype),
                   v |-> VNil]

errUndefinedFeatureGeometry == MkErr("geojson: Feature does not define a Geometry", 0, {}, "")

\* The tail of Feature.UnmarshalJSON (wkb.go:101-193), rf parsed and checked:
\* the geometry, unless it is null, then ID and Properties.
assignFeature(f, rf) ==
    IF rf.Geometry.t # "null"
    THEN Bind(decodeGeometry(rf.Geometry), LAMBDA r :
            IF r.err # Nil THEN [err |-> r.err, v |-> f]
            ELSE [err |-> Nil,
                  v |-> [f EXCEPT !.Geometry = r.v, !.ID = rf.ID, !.Properties = rf.Properties]])
    ELSE [err |-> Nil, v |-> [f EXCEPT !.ID = rf.ID, !.Properties = rf.Properties]]

\* func (f *Feature) UnmarshalJSON(data []byte) error: the error and f after.
FeatureUnmarshalJSON(f, doc) ==
    Bind(jsonUnmarshalRawFeature(doc), LAMBDA rf :
        IF rf.Type # "Feature"
        THEN [err |-> MkErr("geojson: invalid Feature Type value", 0, {}, rf.Type), v |-> f]
        ELSE IF rf.Geometry.t = "nil" THEN [err |-> errUndefinedFeatureGeometry, v |-> f]
        ELSE IF rf.ID \notin {"string", "float64", "nil"}
        THEN [err |-> MkErr("geojson: invalid Feature ID type", 0, {}, rf.ID), v |-> f]
        ELSE assignFeature(f, rf))

\* func (f *Feature) MarshalJSON() ([]byte, error)
FeatureMarshalJSON(f) ==
    IF f.ID \notin {"string", "float64", "nil"}
    THEN [err |-> MkErr("geojson: invalid Feature ID type", 0, {}, f.ID), v |-> NoDoc]
    ELSE IF f.Geometry.shape = "nil"
    THEN [err |-> Nil,
          v |-> jsonMarshalRawFeature(rawFeature(f.ID, "Feature", f.Properties, RawNil))]
    ELSE IF f.Geometry.shape = "Polygon"
    THEN Bind(marshalPolygon(f.Geometry.poly, f.Precision), LAMBDA r :
            IF r.err # Nil THEN [err |-> r.err, v |-> NoDoc]
            ELSE [err |-> Nil,
                  v |-> jsonMarshalRawFeature(rawFeature(f.ID, "Feature", f.Properties, r.v))])
    ELSE [err |-> MkErr("geojson: invalid Feature Geometry type", 0, {}, f.Geometry.shape),
          v |-> NoDoc]

\* json.Marshal(fc.Features): null for the nil slice, else the array of what
\* each element's MarshalJSON returns, or the first error of one.
RECURSIVE jsonMarshalFeatures(_, _, _)
jsonMarshalFeatures(Features, i, acc) ==
    IF Features.t = "nil" THEN [err |-> Nil, v |-> JFeatures("null", <<>>)]
    ELSE IF i > Len(Features.a) THEN [err |-> Nil, v |-> JFeatures("array", acc)]
    ELSE Bind(FeatureMarshalJSON(Features.a[i]), LAMBDA r :
            IF r.err # Nil THEN [err |-> r.err, v |-> JFeatures("absent", <<>>)]
            ELSE Bind(Append(acc, r.v), LAMBDA acc2 : jsonMarshalFeatures(Features, i + 1, acc2)))

\* json.Marshal(rfc) for a rawFeatureCollection: "features" has omitempty and
\* is left out when the RawMessage has no bytes.
jsonMarshalRawFeatureCollection(Type, Features) ==
    JDoc(Type, "absent", "absent", JAbsent,
         IF Features.t = "nil" THEN JFeatures("absent", <<>>) ELSE Features)

\* func (fc *FeatureCollection) MarshalJSON() ([]byte, error)
FeatureCollectionMarshalJSON(fc) ==
    Bind(jsonMarshalFeatures(fc.Features, 1, <<>>), LAMBDA r :
        IF r.err # Nil THEN [err |-> r.err, v |-> NoDoc]
        ELSE [err |-> Nil, v |-> jsonMarshalRawFeatureCollection("FeatureCollection", r.v)])

---------------------------------------------------------------------------
(* The values of the model.                                                *)

\* Bounds: the longest point sequence, the most polylines in a sequence,
\* the most loops in a polygon, the last Write at which a sink may fail, the
\* most polygons and rings per polygon in bytes or JSON built by a peer, and
\* the most Features in a FeatureCollection.
MaxPts == 2
MaxLines == 2
MaxLoops == 3
MaxFailAt == 4
MaxPolys == 2
MaxRings == 2
MaxFeatures == 2

\* All sequences over S of length at most n.
RECURSIVE SeqsUpTo(_, _)
SeqsUpTo(S, n) ==
    IF n = 0 THEN {<<>>}
    ELSE LET shorter == SeqsUpTo(S, n - 1)
         IN  shorter \cup {Append(q, e) : q \in {r \in shorter : Len(r) = n - 1}, e \in S}

\* Sequences without repetition.
Injective(q) == \A i, j \in 1..Len(q) : i # j => q[i] # q[j]

PointPool == {Pt(1, 2), Pt(5, 3)}

PolylinePool == {<<>>, <<Pt(1, 2), Pt(5, 3), Pt(4, 0)>>}

\* Counter-clockwise rings: a square, a square inside it, a triangle inside
\* that, a second triangle inside the first square, a triangle away from all.
RingA == <<Pt(2, 2), Pt(2, 10), Pt(10, 10), Pt(10, 2)>>
RingH == <<Pt(3, 3), Pt(3, 7), Pt(7, 7), Pt(7, 3)>>
RingK == <<Pt(4, 4), Pt(4, 6), Pt(6, 5)>>
RingH2 == <<Pt(8, 8), Pt(8, 9), Pt(9, 9)>>
RingB == <<Pt(2, 12), Pt(2, 14), Pt(4, 14)>>
\* A square around vertex 1 of RingA, and one around its vertex 0, both
\* crossing its boundary.
RingR == <<Pt(1, 9), Pt(1, 11), Pt(3, 11), Pt(3, 9)>>
RingQ == <<Pt(1, 1), Pt(1, 5), Pt(5, 5), Pt(5, 1)>>

LoopPool == {RingA, RingH, RingK, RingH2, RingB}

\* Polygons as the data model has them: built by PolygonFromLoops from
\* normalized loops that do not cross.  The empty polygon is one of them.
Polygons ==
    {PolygonFromLoops([i \in 1..Len(q) |-> LoopFromPoints(q[i])]) :
        q \in {r \in SeqsUpTo(LoopPool, MaxLoops) : Injective(r)}}

\* What the caller hands to Encode / Marshal.  "Other" stands for any Go
\* value outside the six cases of Encode's type switch (a *s2.Loop, a
\* s2.Polyline by value, nil).
Values ==
    {VLatLng(p) : p \in PointPool}
      \cup {VPoint(p) : p \in PointPool}
      \cup {VPolyline(q) : q \in SeqsUpTo(PointPool, MaxPts)}
      \cup {VPoints(q) : q \in SeqsUpTo(PointPool, MaxPts)}
      \cup {VPolylines(q) : q \in SeqsUpTo(PolylinePool, MaxLines)}
      \cup {VPolygon(g) : g \in Polygons}
      \cup {VOther}

\* The zero value of a destination of each shape.
Zero(shape) == Val(shape, ZeroLatLng, <<>>, <<>>, ZeroPolygon)

DestShapes == Supported \cup {"Other"}

---------------------------------------------------------------------------
(* Bytes built by a peer: a Polygon or MultiPolygon value in either byte   *)
(* order, its rings in any winding, closed or open.                        *)

PeerU32(v, order) == IF order = "BigEndian" THEN U32BE(v) ELSE Reverse(U32BE(v))
PeerF64(d, order) == IF order = "BigEndian" THEN F64BE(d) ELSE Reverse(F64BE(d))
PeerMark(order) == IF order = "BigEndian" THEN <<wkbXDR>> ELSE <<wkbNDR>>

RECURSIVE Flat(_)
Flat(qq) == IF qq = <<>> THEN <<>> ELSE Head(qq) \o Flat(Tail(qq))

PeerRing(pts, order) ==
    PeerU32(Len(pts), order)
      \o Flat([i \in 1..Len(pts) |-> PeerF64(pts[i].lng, order) \o PeerF64(pts[i].lat, order)])

PeerPolygon(rings, order) ==
    PeerMark(order) \o PeerU32(wkbPolygon, order) \o PeerU32(Len(rings), order)
      \o Flat([i \in 1..Len(rings) |-> PeerRing(rings[i], order)])

PeerBytes(polys, order) ==
    IF Len(polys) = 1 THEN PeerPolygon(polys[1], order)
    ELSE PeerMark(order) \o PeerU32(wkbMultiPolygon, order) \o PeerU32(Len(polys), order)
           \o Flat([i \in 1..Len(polys) |-> PeerPolygon(polys[i], order)])

\* The rings of a pool as a peer may write them: either winding.
Wound(pool) == pool \cup {Reverse(r) : r \in pool}

SameRing(r1, r2) == r1 = r2 \/ r1 = Reverse(r2)

\* The ways to cut the ring sequence q into at most n polygons of 1..MaxRings
\* rings each.
RECURSIVE Splits(_, _)
Splits(q, n) ==
    IF q = <<>> THEN {<<>>}
    ELSE IF n = 0 THEN {}
    ELSE UNION {{<<SubSeq(q, 1, k)>> \o rest : rest \in Splits(SubSeq(q, k + 1, Len(q)), n - 1)} :
                    k \in 1..(IF Len(q) < MaxRings THEN Len(q) ELSE MaxRings)}

\* Sequences of 1..MaxPolys polygons of 1..MaxRings rings, no ring twice.
PeerPolysOver(pool) ==
    LET rings == {q \in SeqsUpTo(Wound(pool), Cardinality(pool)) :
                    /\ Len(q) >= 1
                    /\ \A i, j \in 1..Len(q) : i # j => ~SameRing(q[i], q[j])}
    IN  UNION {Splits(q, MaxPolys) : q \in rings}

Close(ring) == ring \o <<ring[1]>>

ClosePolys(pp) == [i \in 1..Len(pp) |-> [j \in 1..Len(pp[i]) |-> Close(pp[i][j])]]

PeerRingPool == {RingA, RingH, RingR}

PeerPolys == PeerPolysOver(PeerRingPool)

\* A peer writes closed rings big-endian or open rings little-endian.
PeerInputs ==
    {[polys |-> ClosePolys(pp), order |-> "BigEndian"] : pp \in PeerPolys}
      \cup {[polys |-> pp, order |-> "LittleEndian"] : pp \in PeerPolys}

\* Rings that are no rings: a ring of no point, a ring of one point and its
\* closed form alone, a ring of one point before a ring of the pool, a ring
\* of no point after one or as the only ring of a second polygon.
RingP == <<Pt(1, 1)>>

DegeneratePolys ==
    {<<<<<<>>>>>>,
     <<<<RingP>>>>,
     <<<<Close(RingP)>>>>,
     <<<<RingP, RingA>>>>,
     <<<<RingA, <<>>>>>>,
     <<<<RingA>>, <<<<>>>>>>}

DegenerateInputs ==
    {[polys |-> pp, order |-> order] :
        pp \in DegeneratePolys, order \in {"BigEndian", "LittleEndian"}}

---------------------------------------------------------------------------
(* Features a client builds, and Feature objects written by a peer.        *)

ZeroFeature == Feature("nil", "nil", VNil, PrecisionMax)

\* The Features a client marshals: any ID type (an int is not one the
\* package accepts), with or without properties and geometry (a point is
\* not a geometry MarshalJSON accepts), at a valid or an invalid precision.
ClientFeatures ==
    {Feature(id, props, g, precision) :
        id \in {"nil", "string", "float64", "int"},
        props \in {"nil", "map"},
        g \in {VNil, VPoint(Pt(1, 2))} \cup {VPolygon(poly) : poly \in Polygons},
        precision \in {PrecisionMax, PrecisionE6, PrecisionE7 + 1}}

\* The Feature a client decodes into: a new one, or one that holds the
\* result of an earlier decode.
HeldFeatures ==
    {ZeroFeature,
     Feature("string", "map", VPolygon(PolygonFromLoops(<<LoopFromPoints(RingB)>>)), PrecisionMax)}

JPosition(p) == <<p.lng, p.lat>>
JRing(ring) == [k \in 1..Len(ring) |-> JPosition(ring[k])]
JPolygon(rings) == [j \in 1..Len(rings) |-> JRing(rings[j])]
JMultiPolygon(pp) == [i \in 1..Len(pp) |-> JPolygon(pp[i])]

JsonRingPool == {RingA, RingH, RingQ}

JsonPeerPolys ==
    {pp : pp \in PeerPolysOver(JsonRingPool)}
      \cup {ClosePolys(pp) : pp \in PeerPolysOver(JsonRingPool)}

\* A ring list as a geometry object: a "Polygon" when there is one polygon
\* and the peer chooses so, else a "MultiPolygon".
PeerGeometry(pp, multi) ==
    IF multi THEN JGeometry("object", "MultiPolygon", Coords(4, JMultiPolygon(pp)))
    ELSE JGeometry("object", "Polygon", Coords(3, <<JPolygon(pp[1])>>))

\* Geometry members other than well-formed polygons: no key, null, the
\* other geometry types, a position of three numbers, a type the package
\* does not know, arrays nested deeper than the type has them, a ring
\* without positions.
OtherGeometries ==
    {JAbsent, JNull,
     JGeometry("object", "Point", Coords(1, <<<<<<<<2, 1>>>>>>>>)),
     JGeometry("object", "Point", Coords(1, <<<<<<<<2, 1, 0>>>>>>>>)),
     JGeometry("object", "LineString", Coords(2, <<<<JRing(RingB)>>>>)),
     JGeometry("object", "MultiPoint", Coords(2, <<<<JRing(RingB)>>>>)),
     JGeometry("object", "MultiLineString", Coords(3, <<<<JRing(RingB), JRing(RingA)>>>>)),
     JGeometry("object", "GeometryCollection", NoCoords),
     JGeometry("object", "Polygon", Coords(4, JMultiPolygon(<<<<RingA>>>>))),
     JGeometry("object", "Polygon", Coords(3, <<<<<<>>>>>>))}

PeerDocs ==
    {[doc |-> JDoc("Feature", "absent", "object", PeerGeometry(in.pp, in.multi),
                   JFeatures("absent", <<>>)),
      polys |-> in.pp] :
        in \in {x \in [pp : JsonPeerPolys, multi : BOOLEAN] : x.multi \/ Len(x.pp) = 1}}
      \cup
    {[doc |-> JDoc(type, id, properties, g, JFeatures("absent", <<>>)), polys |-> <<>>] :
        type \in {"Feature", "FeatureCollection"},
        id \in {"absent", "null", "string", "number", "bool"},
        properties \in {"absent", "null", "object"},
        g \in OtherGeometries}

\* Feature objects whose polygon has a ring that is no ring.
DegenerateDocs ==
    {[doc |-> JDoc("Feature", id, "object", PeerGeometry(in.pp, in.multi),
                   JFeatures("absent", <<>>)),
      polys |-> in.pp] :
        id \in {"absent", "string"},
        in \in {x \in [pp : DegeneratePolys, multi : BOOLEAN] : x.multi \/ Len(x.pp) = 1}}

---------------------------------------------------------------------------
(* Where the prefixes (byte order, type code) lie in Marshal's output for  *)
(* a value: what a fault on the way to the decoder may hit.                *)

RECURSIVE SumSeq(_)
SumSeq(q) == IF q = <<>> THEN 0 ELSE Head(q) + SumSeq(Tail(q))

RingBytes(loop) == 4 + 16 * (NumVertices(loop) + 1)
LineBytes(polyline) == 9 + 16 * Len(polyline)

Prefix(pos, code, top) == [pos |-> pos, code |-> code, top |-> top]

EmbeddedPrefixes(v) ==
    CASE v.shape = "Points" ->
            {Prefix(9 + 21 * (k - 1), wkbPoint, FALSE) : k \in 1..Len(v.pts)}
      [] v.shape = "Polylines" ->
            {Prefix(9 + SumSeq([m \in 1..(k - 1) |-> LineBytes(v.lines[m])]), wkbLineString, FALSE) :
                k \in 1..Len(v.lines)}
      [] v.shape = "Polygon" /\ CountShells(v.poly) > 1 ->
            {Prefix(9 + SumSeq([m \in 1..(k - 1) |->
                                   RingBytes(v.poly.loops[m])
                                     + (IF IsHole(v.poly.loops[m]) THEN 0 ELSE 9)]),
                    wkbPolygon, FALSE) :
                k \in {i \in 1..NumLoops(v.poly) : ~IsHole(v.poly.loops[i])}}
      [] OTHER -> {}

TopCode(v) ==
    CASE v.shape \in {"LatLng", "Point"} -> wkbPoint
      [] v.shape = "Polyline" -> wkbLineString
      [] v.shape = "Points" -> wkbMultiPoint
      [] v.shape = "Polylines" -> wkbMultiLineString
      [] v.shape = "Polygon" -> IF CountShells(v.poly) > 1 THEN wkbMultiPolygon ELSE wkbPolygon

Prefixes(v) == {Prefix(0, TopCode(v), TRUE)} \cup EmbeddedPrefixes(v)

\* What a fault writes over a byte-order marker, and over a type code.
FaultMarks == {wkbNDR, 2}
FaultCodes == {wkbLineString, wkbPolygon, wkbMultiPolygon}

---------------------------------------------------------------------------
(* The state: a client of one of the two packages.                         *)

VARIABLES
    pkg,      \* the package the client uses: "wkb" or "geojson"
    value,    \* wkb: the geometry value the client holds
    data,     \* wkb: the bytes last written by the encoder or received
    wire,     \* where data or doc comes from
    wfailed,  \* wkb: a Write of the last encode's sink returned an error
    dest,     \* wkb: the variable the client passes to Unmarshal by pointer
    feature,  \* geojson: the Feature the client marshals
    doc,      \* geojson: the JSON last written by the package or received
    fdest,    \* geojson: the Feature the client calls UnmarshalJSON on
    err,      \* the error the last call returned
    op        \* the last call

vars == <<pkg, value, data, wire, wfailed, dest, feature, doc, fdest, err, op>>

Wire(kind, polys, order, fault) == [kind |-> kind, polys |-> polys, order |-> order, fault |-> fault]
NoFault == [pos |-> 0, part |-> "", put |-> 0, was |-> 0, top |-> FALSE]

InitWKB ==
    /\ pkg = "wkb"
    /\ \/ /\ value \in Values
          /\ data = <<>>
          /\ wire = Wire("none", <<>>, "BigEndian", NoFault)
       \/ /\ value = VOther
          /\ \E in \in PeerInputs :
                /\ data = PeerBytes(in.polys, in.order)
                /\ wire = Wire("peer", in.polys, in.order, NoFault)
       \/ /\ value = VOther
          /\ \E in \in DegenerateInputs :
                /\ data = PeerBytes(in.polys, in.order)
                /\ wire = Wire("degenerate", in.polys, in.order, NoFault)
    /\ wfailed = FALSE
    /\ dest \in {Zero(s) : s \in DestShapes}
    /\ feature = ZeroFeature /\ doc = NoDoc /\ fdest = ZeroFeature
    /\ err = Nil
    /\ op = "none"

InitJSON ==
    /\ pkg = "geojson"
    /\ value = VOther /\ data = <<>> /\ wfailed = FALSE /\ dest = Zero("Other")
    /\ \/ /\ feature \in ClientFeatures
          /\ doc = NoDoc
          /\ wire = Wire("none", <<>>, "BigEndian", NoFault)
       \/ /\ feature = ZeroFeature
          /\ \E in \in PeerDocs :
                /\ doc = in.doc
                /\ wire = Wire("peer", in.polys, "BigEndian", NoFault)
       \/ /\ feature = ZeroFeature
          /\ \E in \in DegenerateDocs :
                /\ doc = in.doc
                /\ wire = Wire("degenerate", in.polys, "BigEndian", NoFault)
    /\ fdest \in HeldFeatures
    /\ err = Nil
    /\ op = "none"

Init == InitWKB \/ InitJSON

\* A panic ends the program.
Running == err # Panic

\* data, err := wkb.Marshal(value)
DoMarshal ==
    /\ pkg = "wkb" /\ Running
    /\ \E r \in {Marshal(value)} :
          /\ data' = r.data
          /\ err' = r.err
    /\ wire' = Wire("Marshal", <<>>, "BigEndian", NoFault)
    /\ wfailed' = FALSE
    /\ op' = "Marshal"
    /\ UNCHANGED <<pkg, value, dest, feature, doc, fdest>>

\* err := wkb.NewEncoder(w).Encode(value), w a sink whose Write number failAt fails
DoEncode(failAt, sticky) ==
    /\ pkg = "wkb" /\ Running
    /\ \E r \in {Encode(NewWriter(failAt, sticky), value)} :
          /\ data' = r.w.out
          /\ wfailed' = r.w.failed
          /\ err' = r.err
    /\ wire' = Wire("Encode", <<>>, "BigEndian", NoFault)
    /\ op' = "Encode"
    /\ UNCHANGED <<pkg, value, dest, feature, doc, fdest>>

\* The bytes are damaged between Marshal and Unmarshal: one byte-order marker
\* or one type code is overwritten.
Corrupt ==
    /\ pkg = "wkb" /\ Running
    /\ op = "Marshal" /\ err = Nil
    /\ \E p \in Prefixes(value) :
          \/ \E b \in FaultMarks :
                /\ data' = [data EXCEPT ![p.pos + 1] = b]
                /\ wire' = Wire("fault", <<>>, "BigEndian",
                                [pos |-> p.pos, part |-> "order", put |-> b, was |-> p.code, top |-> p.top])
          \/ \E c \in FaultCodes \ {p.code} :
                /\ data' = [data EXCEPT ![p.pos + 5] = c]
                /\ wire' = Wire("fault", <<>>, "BigEndian",
                                [pos |-> p.pos, part |-> "type", put |-> c, was |-> p.code, top |-> p.top])
    /\ op' = "Corrupt"
    /\ UNCHANGED <<pkg, value, wfailed, dest, feature, doc, fdest, err>>

\* err := wkb.Unmarshal(data, &dest)
DoUnmarshal ==
    /\ pkg = "wkb" /\ Running
    /\ \E r \in {Unmarshal(data, dest)} :
          /\ dest' = r.v
          /\ err' = r.err
    /\ op' = "Unmarshal"
    /\ UNCHANGED <<pkg, value, data, wire, wfailed, feature, doc, fdest>>

\* doc, err := feature.MarshalJSON()
DoFeatureMarshalJSON ==
    /\ pkg = "geojson" /\ Running
    /\ \E r \in {FeatureMarshalJSON(feature)} :
          /\ doc' = r.v
          /\ err' = r.err
    /\ wire' = Wire("Feature", <<>>, "BigEndian", NoFault)
    /\ op' = "MarshalJSON"
    /\ UNCHANGED <<pkg, value, data, wfailed, dest, feature, fdest>>

\* doc, err := (&FeatureCollection{Features: ...}).MarshalJSON(), the slice
\* nil or of n Features: the client's two, in turn.
DoFeatureCollectionMarshalJSON(nilSlice, n) ==
    /\ pkg = "geojson" /\ Running
    /\ \E r \in {FeatureCollectionMarshalJSON(
                    [Features |-> IF nilSlice THEN [t |-> "nil", a |-> <<>>]
                                  ELSE [t |-> "slice",
                                        a |-> [i \in 1..n |-> IF i % 2 = 1 THEN feature ELSE fdest]]])} :
          /\ doc' = r.v
          /\ err' = r.err
    /\ wire' = Wire("FeatureCollection", <<>>, "BigEndian",
                    [NoFault EXCEPT !.put = IF nilSlice THEN 0 - 1 ELSE n])
    /\ op' = "MarshalJSON"
    /\ UNCHANGED <<pkg, value, data, wfailed, dest, feature, fdest>>

\* err := fdest.UnmarshalJSON(doc)
DoFeatureUnmarshalJSON ==
    /\ pkg = "geojson" /\ Running
    /\ doc # NoDoc
    /\ \E r \in {FeatureUnmarshalJSON(fdest, doc)} :
          /\ fdest' = r.v
          /\ err' = r.err
    /\ op' = "UnmarshalJSON"
    /\ UNCHANGED <<pkg, value, data, wire, wfailed, dest, feature, doc>>

Next ==
    \/ DoMarshal
    \/ \E failAt \in 0..MaxFailAt, sticky \in BOOLEAN : DoEncode(failAt, sticky)
    \/ Corrupt
    \/ DoUnmarshal
    \/ DoFeatureMarshalJSON
    \/ \E nilSlice \in BOOLEAN, n \in 0..MaxFeatures : DoFeatureCollectionMarshalJSON(nilSlice, n)
    \/ DoFeatureUnmarshalJSON

Spec == Init /\ [][Next]_vars

---------------------------------------------------------------------------
(* What the claims speak of: the runs of a polygon's loop list, the rings  *)
(* as they are serialized, and the loops ring assembly should give.        *)

\* The indices of the loops that are not holes.
ShellIndices(polygon) == {i \in 1..NumLoops(polygon) : ~IsHole(polygon.loops[i])}

\* The loops from the shell at index i up to the loop before the next shell.
RunFrom(polygon, i) ==
    LET later == {j \in ShellIndices(polygon) : j > i}
        last == IF later = {} THEN NumLoops(polygon)
                ELSE (CHOOSE j \in later : \A m \in later : j <= m) - 1
    IN  SubSeq(polygon.loops, i, last)

\* The maximal runs, in order.
Runs(polygon) ==
    LET S == ShellIndices(polygon)
    IN  [k \in 1..Cardinality(S) |->
            RunFrom(polygon, CHOOSE i \in S : Cardinality({j \in S : j < i}) = k - 1)]

\* A loop as a closed ring: its vertices in serialized order (a hole's
\* reversed), the first repeated at the end.
ClosedRing(loop) ==
    LET nv == NumVertices(loop)
        at(j) == IF IsHole(loop) THEN loop.vertices[nv + 1 - j] ELSE loop.vertices[j]
    IN  [j \in 1..(nv + 1) |-> IF j = nv + 1 THEN at(1) ELSE at(j)]

\* One ring list per run.
RunRings(polygon) ==
    LET runs == Runs(polygon)
    IN  [k \in 1..Len(runs) |-> [m \in 1..Len(runs[k]) |-> ClosedRing(runs[k][m])]]

\* A ring without its closing point, if it has one.
OpenRing(ring) ==
    IF Len(ring) > 1 /\ ring[1] = ring[Len(ring)] THEN SubSeq(ring, 1, Len(ring) - 1) ELSE ring

\* Ring assembly of one grouping unit: the first ring normalized, each later
\* ring inverted when it contains vertex number probe of the first loop.
GroupLoops(rings, probe) ==
    LET raw == [j \in 1..Len(rings) |-> LoopFromPoints(OpenRing(rings[j]))]
        first == Normalize(raw[1])
    IN  [j \in 1..Len(rings) |->
            IF j = 1 THEN first
            ELSE IF ContainsPoint(raw[j], Vertex(first, probe)) THEN Invert(raw[j])
            ELSE raw[j]]

\* One grouping unit per polygon of the array, the loops concatenated.
PerPolygonLoops(pp, probe) == Flat([i \in 1..Len(pp) |-> GroupLoops(pp[i], probe)])

\* The whole array as one grouping unit.
AccumulatedLoops(pp, probe) == GroupLoops(Flat(pp), probe)

HasHole(polygon) == \E i \in 1..NumLoops(polygon) : IsHole(polygon.loops[i])

---------------------------------------------------------------------------
(* The claims.                                                             *)

\* C1: Marshal(g) followed by Unmarshal into a destination of g's shape
\* succeeds and the destination then equals g: the same points in the same
\* order and, for a polygon, the same loops in the same order, each with the
\* same vertices and the same depth (shell or hole).
C1_RoundTripWKB ==
    (/\ pkg = "wkb" /\ op = "Unmarshal" /\ wire.kind = "Marshal"
     /\ value.shape \in Supported /\ dest.shape = value.shape)
        => (err = Nil /\ dest = value)

C1_Witness ==
    /\ pkg = "wkb" /\ op = "Unmarshal" /\ wire.kind = "Marshal"
    /\ value.shape = "Polygon" /\ CountShells(value.poly) >= 2 /\ HasHole(value.poly)
    /\ err = Nil /\ dest = value

SameLoopCountsAndSigns(p, q) ==
    /\ NumLoops(p) = NumLoops(q)
    /\ \A i \in 1..NumLoops(p) :
          /\ NumVertices(p.loops[i]) = NumVertices(q.loops[i])
          /\ IsHole(p.loops[i]) = IsHole(q.loops[i])

\* C2: Feature.MarshalJSON of a Feature holding a Polygon, at precision Max,
\* followed by Feature.UnmarshalJSON succeeds and gives a Polygon with the
\* same number of loops, each with as many vertices and of the same sign
\* (shell or hole) as the original's; the decoded loops are the original's.
C2_RoundTripJSON ==
    (/\ pkg = "geojson" /\ op = "UnmarshalJSON" /\ wire.kind = "Feature"
     /\ feature.Geometry.shape = "Polygon" /\ feature.Precision = PrecisionMax)
        => /\ err = Nil
           /\ fdest.Geometry.shape = "Polygon"
           /\ SameLoopCountsAndSigns(feature.Geometry.poly, fdest.Geometry.poly)
           /\ fdest.Geometry = feature.Geometry

C2_Witness ==
    /\ pkg = "geojson" /\ op = "UnmarshalJSON" /\ wire.kind = "Feature"
    /\ feature.Geometry.shape = "Polygon" /\ feature.Precision = PrecisionMax
    /\ CountShells(feature.Geometry.poly) >= 2 /\ HasHole(feature.Geometry.poly)
    /\ err = Nil /\ fdest.Geometry = feature.Geometry

\* The bytes and the geometry object the claim describes for a polygon: one
\* Polygon value per run, plain when there is exactly one run.
C3_Encoded(plainWithoutRun) ==
    /\ (pkg = "wkb" /\ op = "Marshal" /\ value.shape = "Polygon")
          => LET rr == RunRings(value.poly)
             IN  /\ err = Nil
                 /\ data = IF rr = <<>> /\ plainWithoutRun THEN PeerPolygon(<<>>, "BigEndian")
                            ELSE PeerBytes(rr, "BigEndian")
    /\ (pkg = "geojson" /\ op = "MarshalJSON" /\ wire.kind = "Feature" /\ err = Nil
        /\ feature.Geometry.shape = "Polygon")
          => LET rr == RunRings(feature.Geometry.poly)
             IN  doc.geometry = PeerGeometry(rr, Len(rr) # 1)

\* C3 as stated: both codecs emit one polygon value per maximal run, tagged
\* plain Polygon when there is exactly one run and MultiPolygon otherwise,
\* the declared count being the number of values.  Violated: wkb writes a
\* polygon without loops as a plain Polygon of no rings.
C3_AsStated == C3_Encoded(FALSE)

\* C3 amended: one polygon value per maximal run, the runs' loops in order;
\* geojson tags the output Polygon when there is exactly one run and
\* MultiPolygon otherwise, wkb tags it Polygon when there is at most one run
\* (a Polygon of no rings when there is none) and MultiPolygon otherwise; a
\* MultiPolygon declares as many values as it holds.
C3_RunPartition == C3_Encoded(TRUE)

C3_Witness ==
    /\ pkg = "wkb" /\ op = "Marshal" /\ value.shape = "Polygon" /\ err = Nil
    /\ Len(Runs(value.poly)) >= 2 /\ HasHole(value.poly)
    /\ data = PeerBytes(RunRings(value.poly), "BigEndian")

C4_Marshalled(member) ==
    /\ (pkg = "geojson" /\ op = "MarshalJSON" /\ wire.kind = "Feature" /\ err = Nil
        /\ feature.Geometry.shape = "nil")
          => doc.geometry.t = member
    /\ (pkg = "geojson" /\ op = "MarshalJSON" /\ wire.kind = "FeatureCollection" /\ err = Nil)
          => doc.features.t # "absent"

\* C4 as stated: MarshalJSON of a Feature without geometry leaves the
\* "geometry" key out; FeatureCollection.MarshalJSON always writes "features".
C4_AsStated == C4_Marshalled("absent")

\* C4 amended: MarshalJSON of a Feature without geometry writes the
\* "geometry" key with the value null; FeatureCollection.MarshalJSON always
\* writes the "features" key.
C4_GeometryNull == C4_Marshalled("null")

C4_Witness ==
    /\ pkg = "geojson" /\ op = "MarshalJSON" /\ wire.kind = "Feature" /\ err = Nil
    /\ feature.Geometry.shape = "nil" /\ doc.geometry = JNull

\* The Go type Feature.Geometry holds after decoding a geometry of the type.
ShapeOfType(gtype) ==
    CASE gtype = "Point" -> "Point"
      [] gtype = "LineString" -> "Polyline"
      [] gtype = "Polygon" -> "Polygon"
      [] gtype = "MultiPoint" -> "Points"
      [] gtype = "MultiLineString" -> "Polylines"
      [] gtype = "MultiPolygon" -> "Polygon"
      [] OTHER -> "nil"

\* C5: UnmarshalJSON of an object of type "Feature": without the "geometry"
\* key it fails with the missing-geometry error; with "geometry": null it
\* succeeds and the Feature has no geometry; with a geometry object the
\* geometry is decoded by its type, and a type the package does not know is
\* an error.  Violated: after "geometry": null a Feature keeps the geometry
\* it held before the call.
C5_GeometryStates ==
    (pkg = "geojson" /\ op = "UnmarshalJSON" /\ doc.type = "Feature" /\ err # Panic) =>
        /\ doc.geometry.t = "absent" => err = errUndefinedFeatureGeometry
        /\ (doc.geometry.t = "null" /\ doc.id # "bool")
              => (err = Nil /\ fdest.Geometry = VNil)
        /\ (doc.geometry.t = "object" /\ doc.id # "bool") =>
              IF ShapeOfType(doc.geometry.gtype) = "nil"
              THEN err.kind = "geojson: invalid Feature Geometry Type value"
              ELSE err = Nil => fdest.Geometry.shape = ShapeOfType(doc.geometry.gtype)

\* C6: when a Write of the sink has failed during Encode, Encode returns
\* the sink's error.  Violated: the error of a ring's Write inside a Polygon
\* value is dropped and Encode returns nil.
C6_SinkErrorReturned ==
    (pkg = "wkb" /\ op = "Encode" /\ wfailed) => err = ErrSink

\* The type codes the decoder accepts at the top of the bytes, by destination.
ExpectedCodes(shape) ==
    CASE shape \in {"LatLng", "Point"} -> {wkbPoint}
      [] shape = "Polyline" -> {wkbLineString}
      [] shape = "Points" -> {wkbMultiPoint}
      [] shape = "Polylines" -> {wkbMultiLineString}
      [] shape = "Polygon" -> {wkbPolygon, wkbMultiPolygon}

C7_FaultDetected ==
    (/\ pkg = "wkb" /\ op = "Unmarshal" /\ wire.kind = "fault" /\ dest.shape = value.shape) =>
        LET expected == IF wire.fault.top THEN ExpectedCodes(dest.shape) ELSE {wire.fault.was}
        IN  /\ (wire.fault.part = "order" /\ wire.fault.put \notin {wkbXDR, wkbNDR})
                  => err = MkErr("wkb: unknown byte order", wire.fault.put, {}, "")
            /\ (wire.fault.part = "type" /\ wire.fault.put \notin expected)
                  => err = MkErr("wkb: invalid geometry type", wire.fault.put, expected, "")

C7_MismatchDetected ==
    (/\ pkg = "wkb" /\ op = "Unmarshal" /\ wire.kind = "Marshal"
     /\ value.shape \in Supported /\ dest.shape \in Supported
     /\ TopCode(value) \notin ExpectedCodes(dest.shape))
        => err = MkErr("wkb: invalid geometry type", TopCode(value), ExpectedCodes(dest.shape), "")

C7_PrefixError(e) == e.kind \in {"wkb: unknown byte order", "wkb: invalid geometry type"}

\* C7: a byte-order marker other than 0 or 1, at the top of the bytes or of
\* an embedded value, makes Unmarshal return the unknown-byte-order error; a
\* type code other than the one expected there (3 or 6 at the top for a
\* polygon destination) makes it return the invalid-geometry-type error with
\* the code found and the codes expected; and a call that returns one of the
\* two errors leaves the destination as it was.
C7_PrefixValidation ==
    /\ [](C7_FaultDetected /\ C7_MismatchDetected)
    /\ [][(op' = "Unmarshal" /\ C7_PrefixError(err')) => dest' = dest]_vars

C7_Witness ==
    /\ pkg = "wkb" /\ op = "Unmarshal" /\ wire.kind = "fault" /\ dest.shape = value.shape
    /\ ~wire.fault.top /\ wire.fault.part = "type" /\ value.shape = "Polygon"
    /\ err = MkErr("wkb: invalid geometry type", wkbMultiPolygon, {wkbPolygon}, "")
    /\ dest # Zero("Polygon")

\* C8: Unmarshal into a destination that is none of the six supported ones
\* returns nil and leaves it as it was, whatever the bytes; Encode of a value
\* that is none of the six supported ones returns the unknown-geometry-type
\* error and calls no Write of the sink.
C8_UnsupportedShapes ==
    /\ (pkg = "wkb" /\ op = "Unmarshal" /\ dest.shape \notin Supported)
          => (err = Nil /\ dest = Zero(dest.shape))
    /\ (pkg = "wkb" /\ op = "Encode" /\ value.shape \notin Supported)
          => (err.kind = "wkb: unknown geometry type" /\ data = <<>> /\ ~wfailed)

C8_Witness ==
    /\ pkg = "wkb" /\ op = "Unmarshal" /\ dest.shape \notin Supported
    /\ wire.kind = "fault" /\ wire.fault.part = "order" /\ wire.fault.put = 2
    /\ err = Nil

C9_Decoded(accumulating) ==
    (/\ pkg = "geojson" /\ op = "UnmarshalJSON" /\ wire.kind = "peer" /\ wire.polys # <<>>
     /\ doc.geometry.gtype = "MultiPolygon")
        => /\ err = Nil
           /\ fdest.Geometry =
                 VPolygon(PolygonFromLoops(IF accumulating THEN AccumulatedLoops(wire.polys, 0)
                                           ELSE PerPolygonLoops(wire.polys, 0)))

\* C9 as stated: decoding a MultiPolygon assembles all rings of the array as
\* one grouping unit: the first ring of the first polygon is normalized and
\* every later ring is inverted when it contains vertex 0 of that first loop.
C9_AsStated == C9_Decoded(TRUE)

\* C9 amended: decoding a MultiPolygon assembles the rings of each polygon of
\* the array as a grouping unit of its own: the first ring of every polygon
\* is normalized, and every later ring of a polygon is inverted when it
\* contains vertex 0 of that polygon's first loop; the loops of all polygons
\* are concatenated in input order.
C9_PerPolygonUnit == C9_Decoded(FALSE)

C9_Witness ==
    /\ pkg = "geojson" /\ op = "UnmarshalJSON" /\ wire.kind = "peer" /\ Len(wire.polys) = 2
    /\ doc.geometry.gtype = "MultiPolygon" /\ err = Nil
    /\ PerPolygonLoops(wire.polys, 0) # AccumulatedLoops(wire.polys, 0)
    /\ fdest.Geometry = VPolygon(PolygonFromLoops(PerPolygonLoops(wire.polys, 0)))

\* C10: decoding Polygon or MultiPolygon bytes assembles the rings of each
\* Polygon value as a grouping unit of its own: its first ring is normalized
\* and each later ring of it is inverted exactly when it contains vertex 1 of
\* that value's first loop; the loops of all values are concatenated in input
\* order, so the polygon has as many loops as the bytes have rings.
C10_PerValueUnit ==
    (/\ pkg = "wkb" /\ op = "Unmarshal" /\ wire.kind = "peer" /\ dest.shape = "Polygon")
        => /\ err = Nil
           /\ dest = VPolygon(PolygonFromLoops(PerPolygonLoops(wire.polys, 1)))
           /\ NumLoops(dest.poly) = Len(Flat(wire.polys))

C10_Witness ==
    /\ pkg = "wkb" /\ op = "Unmarshal" /\ wire.kind = "peer" /\ dest.shape = "Polygon"
    /\ Len(wire.polys) = 2 /\ Len(Flat(wire.polys)) = 3 /\ err = Nil
    /\ PerPolygonLoops(wire.polys, 1) # AccumulatedLoops(wire.polys, 1)
    /\ PerPolygonLoops(wire.polys, 1) # PerPolygonLoops(wire.polys, 0)
    /\ dest = VPolygon(PolygonFromLoops(PerPolygonLoops(wire.polys, 1)))

\* A point sequence and a loop's vertices, whatever the direction.
Undirected(points) == {points, Reverse(points)}

\* The polygon has one loop per ring of the input, and the loops' vertices
\* are the rings' points without the closing point, in either direction.
C11_Assembled(polygon) ==
    LET rings == Flat(wire.polys)
    IN  /\ NumLoops(polygon) = Len(rings)
        /\ {Undirected(polygon.loops[i].vertices) : i \in 1..NumLoops(polygon)}
              = {Undirected(OpenRing(rings[j])) : j \in 1..Len(rings)}

C11_Closure(kinds) ==
    /\ (/\ pkg = "wkb" /\ op = "Unmarshal" /\ wire.kind \in kinds /\ dest.shape = "Polygon"
         /\ \A j \in 1..Len(Flat(wire.polys)) : Flat(wire.polys)[j] # <<>>)
           => (err = Nil /\ C11_Assembled(dest.poly))
    /\ (/\ pkg = "geojson" /\ op = "UnmarshalJSON" /\ wire.kind \in kinds /\ wire.polys # <<>>
         /\ \A j \in 1..Len(Flat(wire.polys)) : Flat(wire.polys)[j] # <<>>)
           => (err = Nil /\ fdest.Geometry.shape = "Polygon" /\ C11_Assembled(fdest.Geometry.poly))

\* C11: in both ring-assembly paths (decodeLinearRing for WKB, unmarshalLoops
\* for GeoJSON) a ring given open and the same ring given closed, its first
\* point repeated at the end, are assembled into loops with the same vertex
\* sequence; a ring loses its last point only when that point is a repeated
\* copy of the first, and loses at most one point.  Violated: a ring of one
\* point loses that point, as the first and the last point compared are the
\* same element, and the loop has no vertex, while the closed form of the
\* ring gives a loop of one vertex.
C11_RingClosure == C11_Closure({"peer", "degenerate"})

\* On rings of two points or more the closed and the open form of a ring do
\* give the same loop.
C11_ProperRings == C11_Closure({"peer"})

\* A ring of one point decoded alone: the loop has no vertex.
C11_Witness ==
    /\ wire.kind = "degenerate" /\ wire.polys = <<<<RingP>>>> /\ err = Nil
    /\ \/ /\ pkg = "wkb" /\ op = "Unmarshal" /\ dest.shape = "Polygon"
          /\ dest.poly = PolygonFromLoops(<<LoopFromPoints(<<>>)>>)
       \/ /\ pkg = "geojson" /\ op = "UnmarshalJSON"
          /\ fdest.Geometry = VPolygon(PolygonFromLoops(<<LoopFromPoints(<<>>)>>))

\* C12: every decode call (Unmarshal, Feature.UnmarshalJSON) ends with a
\* decoded value or a returned error and never crashes, whatever the input,
\* also for Polygon or MultiPolygon bytes with a ring that declares no vertex
\* and for Polygon or MultiPolygon coordinates with an empty ring.  Violated:
\* ring assembly indexes points[0] of the empty slice and panics.
C12_DecodeNeverCrashes ==
    op \in {"Unmarshal", "UnmarshalJSON"} => err # Panic

\* A MultiPolygon whose second polygon has a ring of no point: the decoder
\* panics after it has assembled the first polygon's ring.
C12_Witness ==
    /\ wire.kind = "degenerate" /\ wire.polys = <<<<RingA>>, <<<<>>>>>>
    /\ err = Panic
    /\ \/ pkg = "wkb" /\ op = "Unmarshal" /\ dest = Zero("Polygon")
       \/ pkg = "geojson" /\ op = "UnmarshalJSON" /\ doc.geometry.gtype = "MultiPolygon"

\* What the client reads of a Feature after a decode.
C13_Fields(f) == <<f.ID, f.Properties, f.Geometry>>

\* After a successful decode the fields are those of the input: what the
\* same call gives on a new Feature, and no geometry for "geometry": null.
C13_FromInputAlone ==
    (pkg = "geojson" /\ op = "UnmarshalJSON" /\ err = Nil) =>
        /\ C13_Fields(fdest) = C13_Fields(FeatureUnmarshalJSON(ZeroFeature, doc).v)
        /\ doc.geometry.t = "null" => fdest.Geometry = VNil

\* C13: what Feature.UnmarshalJSON leaves in the Feature depends on the JSON
\* alone, not on what the Feature held: after a successful decode ID,
\* Properties and Geometry are those of the input, Geometry unset for
\* "geometry": null also when the Feature held a geometry of an earlier
\* decode; after a failed decode ID, Properties and Geometry are unchanged.
\* Violated: "geometry": null leaves the geometry held before in place.
C13_InputDetermines ==
    /\ []C13_FromInputAlone
    /\ [][(op' = "UnmarshalJSON" /\ err' \notin {Nil, Panic})
              => C13_Fields(fdest') = C13_Fields(fdest)]_vars

\* A Feature that holds a polygon decodes "geometry": null: the call
\* succeeds, ID and Properties are the input's, the polygon is still there.
C13_Witness ==
    /\ pkg = "geojson" /\ op = "UnmarshalJSON" /\ err = Nil
    /\ doc.geometry = JNull /\ doc.id = "absent" /\ doc.properties = "null"
    /\ fdest.ID = "nil" /\ fdest.Properties = "nil"
    /\ fdest.Geometry.shape = "Polygon"

=============================================================================
